---- MODULE Spec2Model ----
(***************************************************************************)
(* A model of replication.py: the destination address pool of             *)
(* TargetCluster (its construction and least-used selection), the         *)
(* relationship cache, create_replications and clean_replications of      *)
(* ReplicationManager, accept_pending_replications and                    *)
(* clean_ended_replications of TargetCluster, and validate_args.          *)
(*                                                                         *)
(* Python dicts keep insertion order, and the code depends on it (min()   *)
(* over dst_load, the iteration of repli_paths), so a dict is a sequence  *)
(* of records with pairwise distinct keys.  Paths are sequences of         *)
(* one-character strings, so that str.startswith is a prefix test on       *)
(* characters and not on path segments.                                    *)
(***************************************************************************)
EXTENDS Integers, Sequences, FiniteSets, TLC

\* ---------------------------------------------------------------- bounds
\* Number of floating addresses the destination cluster offers.
NumFips == 3
\* Cap on the load counter of an address (the code has none).
MaxLoad == 3
\* Cap on the relationship ids the source cluster hands out.
MaxId == 4

VARIABLES
    dst_load,              \* TargetCluster.dst_load: <<[ip, load], ...>> in insertion order
    selected,              \* the addresses a direct caller of get_next_dst_ip was handed, in order
    source_rels,           \* the source cluster's relationship list, in listing order
    next_id,               \* the id the source cluster gives to the next relationship
    repli_paths,           \* ReplicationManager.repli_paths: <<[path, replid, dst], ...>>
    created_replications,  \* ReplicationManager.created_replications (a dict that is update()d)
    pc,                    \* "idle", "create", "clean" or "raised" (an exception left the method)
    call,                  \* the latest call: [op, basepath, kw, filteri, filtere, dst_path]
    entries,               \* create: the file system's listing under basepath, as
                           \* tree_walk_preorder yields it; clean: repli_paths.items()
    idx,                   \* position of the running loop in entries
    first,                 \* the local flag of create_replications
    run_creates,           \* create_source_relationship calls issued by the running/last create
    run_deletes,           \* delete_source_relationship calls issued by the running/last clean
    ret,                   \* what the last method that returned gave back
    err,                   \* the exception that left the last method, "none" if it returned
    listed,                \* the source paths the cluster listed at the latest populate
    args,                  \* the parsed command line validate_args is given
    vpc,                   \* position of validate_args: "start", "connect_src", "connect_dst",
                           \* "return", "done" or "raised"
    factory_calls,         \* the calls of client_factory so far: "src", "dst"
    clients,               \* the locals src_client, dst_client: [src, dst], FALSE for None
    verr,                  \* the message of the ValueError validate_args raised, "none" if none
    target_rels,           \* the destination cluster's relationship list, in listing order
    dpc,                   \* position of the running TargetCluster method: "idle", "prompt",
                           \* "accept", "ended", "return" ("off": no destination in play)
    dcall,                 \* the running call: [op, confirm, response, basepath,
                           \* allow_non_empty_dir]
    cands,                 \* the local pending_relationships / ended_relationships
    didx,                  \* position of the running loop in cands
    attempts,              \* authorize / delete calls issued by the running call: [id, ok]
    accepted,              \* the local accepted of accept_pending_replications
    deleted_count,         \* the local deleted_count of clean_ended_replications
    prompts,               \* input() calls of the running call
    dret,                  \* what the last TargetCluster method that returned gave back
    logged,                \* the running call's latest authorize: [text, log], the text
                           \* of its exception and what logger.error was handed of it
                           \* (both empty if it succeeded)
    fip_data,              \* network.get_floating_ip_allocation(): <<[id, floating_addresses], ...>>
    ctor,                  \* the call TargetCluster(client, ...): [user_ips, network, kw]
    cpc,                   \* position of TargetCluster.__init__: "start", "fetched", "load",
                           \* "done" or "raised" ("off": no construction in play)
    cluster_fips,          \* what get_dst_ips returned
    available_ips,         \* self.available_ips
    cerr,                  \* the exception that left __init__: [kind, what, network, available, ips]
    main,                  \* a run of main(): [pc, basepath] ("off": main is not in play)
    procs                  \* concurrent invocations of the create action, each with
                           \* its own manager and pool: <<[pc, basepath, walk, repli_paths,
                           \* dst_load, entries, idx, first, run_creates], ...>>

\* validate_args
argVars == <<args, vpc, factory_calls, clients, verr>>

\* accept_pending_replications and clean_ended_replications
dstVars == <<target_rels, dpc, dcall, cands, didx, attempts, accepted, deleted_count,
             prompts, dret, logged>>

\* TargetCluster.__init__
netVars == <<fip_data, ctor, cpc, cluster_fips, available_ips, cerr>>

\* main() and its concurrent runs
runVars == <<main, procs>>

\* what the pool and the manager never touch
extVars == <<argVars, dstVars, netVars, runVars>>

vars == <<dst_load, selected, source_rels, next_id, repli_paths, created_replications,
          pc, call, entries, idx, first, run_creates, run_deletes, ret, err, listed,
          extVars>>

\* the pool and the manager
coreVars == <<dst_load, selected, source_rels, next_id, repli_paths, created_replications,
              pc, call, entries, idx, first, run_creates, run_deletes, ret, err, listed>>

mgrVars == <<source_rels, next_id, repli_paths, created_replications, pc, call,
             entries, idx, first, run_creates, run_deletes, ret, err, listed>>

\* ------------------------------------------------------------- utilities
Range(s) == {s[i] : i \in 1..Len(s)}

Last(s) == s[Len(s)]

InjectiveSeqs(S) ==
    {s \in UNION {[1..n -> S] : n \in 0..Cardinality(S)} :
        \A i, j \in 1..Len(s) : i # j => s[i] # s[j]}

SeqMax(s) == CHOOSE m \in Range(s) : \A x \in Range(s) : x <= m

SeqMin(s) == CHOOSE m \in Range(s) : \A x \in Range(s) : m <= x

\* ---------------------------------------------------- the address pool
\* The destination cluster's floating addresses (10.1.1.<20+i> in the tests).
Fips == 1..NumFips

Loads(d) == [i \in 1..Len(d) |-> d[i].load]

\* TargetCluster.__init__: every available address enters dst_load with load 0.
NewPool(ips) == [i \in 1..Len(ips) |-> [ip |-> ips[i], load |-> 0]]

\* Faulty variants of MinIndex: the last of the least-loaded, always the first
\* key, the most loaded.
MinIndexLast(d) ==
    CHOOSE i \in 1..Len(d) :
        /\ \A j \in 1..Len(d) : d[i].load <= d[j].load
        /\ \A j \in (i+1)..Len(d) : d[j].load > d[i].load

MinIndexFirstKey(d) == 1

MinIndexMostLoaded(d) ==
    CHOOSE i \in 1..Len(d) :
        /\ \A j \in 1..Len(d) : d[i].load >= d[j].load
        /\ \A j \in 1..(i-1) : d[j].load < d[i].load

\* min(self.dst_load, key=self.dst_load.get): min() walks the keys in the dict's
\* order and keeps the first key whose value is smaller than all before it.
MinIndex(d) ==
    CHOOSE i \in 1..Len(d) :
        /\ \A j \in 1..Len(d) : d[i].load <= d[j].load
        /\ \A j \in 1..(i-1) : d[j].load > d[i].load

\* Faulty variant of Bump: the counter goes up by two.
BumpTwice(d, i) == [d EXCEPT ![i].load = @ + 2]

\* self.dst_load[min_ip] += 1
Bump(d, i) == [d EXCEPT ![i].load = @ + 1]

\* get_next_dst_ip called directly (as the tests of TargetCluster do).  The pool is
\* never empty after a successful construction, so the ValueError branch is dead.
GetNextDstIp ==
    /\ pc = "idle"
    /\ dst_load # <<>>
    /\ SeqMin(Loads(dst_load)) < MaxLoad
    /\ LET i == MinIndex(dst_load) IN
        /\ dst_load' = Bump(dst_load, i)
        /\ selected' = Append(selected, dst_load[i].ip)
    /\ UNCHANGED extVars
    /\ UNCHANGED mgrVars

\* ------------------------------------------------ paths and the clusters
\* "/d", "/dd", "/d/x", "/d/y", "/dd/x": "/dd" starts with "/d" as a string
\* although it does not lie under it.
P_d == <<"/", "d">>
P_dd == <<"/", "d", "d">>
P_dx == <<"/", "d", "/", "x">>
P_dy == <<"/", "d", "/", "y">>
P_ddx == <<"/", "d", "d", "/", "x">>

BasePaths == {P_d, P_dd}

SubDirs == {P_dx, P_dy, P_ddx}

DIRECTORY == "FS_FILE_TYPE_DIRECTORY"
FILE == "FS_FILE_TYPE_FILE"

\* str.startswith
StartsWith(path, prefix) ==
    /\ Len(prefix) <= Len(path)
    /\ SubSeq(path, 1, Len(prefix)) = prefix

\* The entries one level below basepath.
Children(basepath) ==
    {p \in SubDirs : /\ StartsWith(p, basepath \o <<"/">>)
                     /\ \A i \in (Len(basepath) + 2)..Len(p) : p[i] # "/"}

\* fs.tree_walk_preorder(path=basepath, max_depth=1): the base directory itself,
\* then the entries below it (directories or files), each once.
Walks(basepath) ==
    {<<[path |-> basepath, type |-> DIRECTORY]>> \o w :
        w \in {v \in InjectiveSeqs([path : Children(basepath), type : {DIRECTORY, FILE}]) :
                 \A i, j \in 1..Len(v) : i # j => v[i].path # v[j].path}}

\* Relationships that exist on the source cluster before the program starts.
InitialRels ==
    {[i \in 1..Len(ps) |-> [id |-> i, source_root_path |-> ps[i], target_address |-> 1]] :
        ps \in InjectiveSeqs({P_dx, P_ddx})}

\* What a method handed back: nothing yet, None, or an integer.
Unset == [kind |-> "unset", value |-> 0]
NoneValue == [kind |-> "None", value |-> 0]
IntValue(n) == [kind |-> "int", value |-> n]

\* The dst_path keyword: absent or None, or a string.
NoPrefix == [given |-> FALSE, s |-> <<>>]
Prefix(s) == [given |-> TRUE, s |-> s]

NoCall == [op |-> "none", basepath |-> <<>>, kw |-> "plain", filteri |-> {}, filtere |-> {},
           dst_path |-> NoPrefix]

\* The filter keywords the tests pass ({} stands for None): an include set or an
\* exclude set.
FilterArgs ==
    {[filteri |-> {<<"x">>}, filtere |-> {}],
     [filteri |-> {}, filtere |-> {<<"x">>}]}

\* The dst_path values the tests pass: None, "", "/", "/b" and "b".
DstPathArgs == {NoPrefix, Prefix(<<>>), Prefix(<<"/">>), Prefix(<<"/", "b">>), Prefix(<<"b">>)}

\* The keywords the tests add to create_replications(basepath, dst): a filter
\* (with dst_path=""), or dst_path alone.
CreateKeywords ==
    {[kw |-> "filter", filteri |-> f.filteri, filtere |-> f.filtere,
      dst_path |-> Prefix(<<>>)] : f \in FilterArgs}
    \cup {[kw |-> "dst_path", filteri |-> {}, filtere |-> {}, dst_path |-> p] :
            p \in DstPathArgs}

\* ------------------------------------------------ the relationship cache
KeyIndex(d, path) == CHOOSE i \in 1..Len(d) : d[i].path = path

\* path in self.repli_paths
InCache(path, d) == \E i \in 1..Len(d) : d[i].path = path

\* self.repli_paths[repli_path] = {...}: an existing key keeps its place and gets
\* the new value, a new key goes to the end.
DictSet(d, item) ==
    IF InCache(item.path, d)
    THEN [d EXCEPT ![KeyIndex(d, item.path)] = item]
    ELSE Append(d, item)

RECURSIVE PopulatedFrom(_, _, _)
PopulatedFrom(d, rels, i) ==
    IF i > Len(rels) THEN d
    ELSE PopulatedFrom(
            DictSet(d, [path |-> rels[i].source_root_path,
                        replid |-> rels[i].id,
                        dst |-> rels[i].target_address]),
            rels, i + 1)

\* Faulty variant of Populated: the listing is not stored.
PopulatedNothing(d, rels) == d

\* The loop of populate_replication_cache over the listing; repli_paths is not
\* emptied first.
Populated(d, rels) == PopulatedFrom(d, rels, 1)

\* populate_replication_cache
Populate ==
    /\ pc = "idle"
    /\ repli_paths' = Populated(repli_paths, source_rels)
    /\ listed' = {source_rels[i].source_root_path : i \in 1..Len(source_rels)}
    /\ UNCHANGED extVars
    /\ UNCHANGED <<dst_load, selected, source_rels, next_id, created_replications, pc, call,
                   entries, idx, first, run_creates, run_deletes, ret, err>>

\* ---------------------------------------------------- create_replications
\* rm.create_replications(basepath, dst=target_cluster), as main calls it.
CreateStart(basepath, walk) ==
    /\ pc = "idle"
    /\ next_id + Len(walk) - 1 <= MaxId + 1
    /\ pc' = "create"
    /\ call' = [op |-> "create", basepath |-> basepath, kw |-> "plain",
                filteri |-> {}, filtere |-> {}, dst_path |-> NoPrefix]
    /\ entries' = walk
    /\ idx' = 1
    /\ first' = TRUE
    /\ run_creates' = <<>>
    /\ err' = "none"
    /\ UNCHANGED extVars
    /\ UNCHANGED <<dst_load, selected, source_rels, next_id, repli_paths,
                   created_replications, run_deletes, ret, listed>>

\* rm.create_replications(basepath, dst, dst_path=..., filteri=..., filtere=...), as
\* the tests of the filters and of dst_path call it: the method has no such parameters, so the call
\* raises TypeError before its body runs.  As in those tests, it is the first
\* call of create_replications or clean_replications on the manager.
CreateRejected(basepath, walk, f) ==
    /\ pc = "idle"
    /\ ret = Unset
    /\ pc' = "raised"
    /\ call' = [op |-> "create", basepath |-> basepath, kw |-> f.kw,
                filteri |-> f.filteri, filtere |-> f.filtere, dst_path |-> f.dst_path]
    /\ entries' = walk
    /\ idx' = 1
    /\ run_creates' = <<>>
    /\ err' = "TypeError"
    /\ UNCHANGED extVars
    /\ UNCHANGED <<dst_load, selected, source_rels, next_id, repli_paths,
                   created_replications, first, run_deletes, ret, listed>>

InCreateLoop == pc = "create" /\ idx <= Len(entries)

\* if first: first = False; continue
CreateSkipFirst ==
    /\ InCreateLoop
    /\ first
    /\ first' = FALSE
    /\ idx' = idx + 1
    /\ UNCHANGED extVars
    /\ UNCHANGED <<dst_load, selected, source_rels, next_id, repli_paths,
                   created_replications, pc, call, entries, run_creates, run_deletes,
                   ret, err, listed>>

\* entry.get("type") is not a directory: nothing happens
CreateSkipOther ==
    /\ InCreateLoop
    /\ ~first
    /\ entries[idx].type # DIRECTORY
    /\ idx' = idx + 1
    /\ UNCHANGED extVars
    /\ UNCHANGED <<dst_load, selected, source_rels, next_id, repli_paths,
                   created_replications, pc, call, entries, first, run_creates,
                   run_deletes, ret, err, listed>>

\* Faulty variant of CreateSkipCached: get_next_dst_ip is called before the
\* cache is looked at, so a cached entry takes an address too.
CreateSkipCachedTakingIp ==
    /\ InCreateLoop
    /\ ~first
    /\ entries[idx].type = DIRECTORY
    /\ InCache(entries[idx].path, repli_paths)
    /\ dst_load' = Bump(dst_load, MinIndex(dst_load))
    /\ idx' = idx + 1
    /\ UNCHANGED extVars
    /\ UNCHANGED <<selected, source_rels, next_id, repli_paths,
                   created_replications, pc, call, entries, first, run_creates,
                   run_deletes, ret, err, listed>>

\* the else branch: "Replication already existing in folder"
CreateSkipCached ==
    /\ InCreateLoop
    /\ ~first
    /\ entries[idx].type = DIRECTORY
    /\ InCache(entries[idx].path, repli_paths)
    /\ idx' = idx + 1
    /\ UNCHANGED extVars
    /\ UNCHANGED <<dst_load, selected, source_rels, next_id, repli_paths,
                   created_replications, pc, call, entries, first, run_creates,
                   run_deletes, ret, err, listed>>

MustCreate ==
    /\ InCreateLoop
    /\ dst_load # <<>>
    /\ ~first
    /\ entries[idx].type = DIRECTORY
    /\ ~InCache(entries[idx].path, repli_paths)

\* The arguments of create_source_relationship for the entry at idx.
CreateArgs ==
    [address |-> dst_load[MinIndex(dst_load)].ip,
     source_path |-> entries[idx].path,
     target_path |-> entries[idx].path]

\* Faulty variant of CreateOk: the new relationship is entered in the cache.
CreateOkCaching ==
    /\ MustCreate
    /\ dst_load' = Bump(dst_load, MinIndex(dst_load))
    /\ run_creates' = Append(run_creates, CreateArgs)
    /\ source_rels' = Append(source_rels,
            [id |-> next_id, source_root_path |-> CreateArgs.source_path,
             target_address |-> CreateArgs.address])
    /\ next_id' = next_id + 1
    /\ created_replications' = <<[id |-> next_id] @@ CreateArgs>>
    /\ repli_paths' = DictSet(repli_paths, [path |-> CreateArgs.source_path,
                                           replid |-> next_id, dst |-> CreateArgs.address])
    /\ idx' = idx + 1
    /\ UNCHANGED extVars
    /\ UNCHANGED <<selected, pc, call, entries, first, run_deletes, ret, err, listed>>

\* dst.get_next_dst_ip(), then create_source_relationship succeeds: the cluster
\* lists the new relationship, and created_replications.update(replication_info)
\* overwrites the keys of the dict with those of the new record.
CreateOk ==
    /\ MustCreate
    /\ dst_load' = Bump(dst_load, MinIndex(dst_load))
    /\ run_creates' = Append(run_creates, CreateArgs)
    /\ source_rels' = Append(source_rels,
            [id |-> next_id, source_root_path |-> CreateArgs.source_path,
             target_address |-> CreateArgs.address])
    /\ next_id' = next_id + 1
    /\ created_replications' = <<[id |-> next_id] @@ CreateArgs>>
    /\ idx' = idx + 1
    /\ UNCHANGED extVars
    /\ UNCHANGED <<selected, repli_paths, pc, call, entries, first, run_deletes, ret,
                   err, listed>>

\* dst.get_next_dst_ip(), then create_source_relationship raises: nothing in
\* create_replications catches it.
CreateFail ==
    /\ MustCreate
    /\ dst_load' = Bump(dst_load, MinIndex(dst_load))
    /\ run_creates' = Append(run_creates, CreateArgs)
    /\ pc' = "raised"
    /\ err' = "RequestError"
    /\ UNCHANGED extVars
    /\ UNCHANGED <<selected, source_rels, next_id, repli_paths, created_replications,
                   call, entries, idx, first, run_deletes, ret, listed>>

\* the walk is exhausted: the method falls off its end, its frame is gone
CreateReturn ==
    /\ pc = "create"
    /\ idx > Len(entries)
    /\ pc' = "idle"
    /\ ret' = NoneValue
    /\ call' = NoCall
    /\ entries' = <<>>
    /\ idx' = 0
    /\ first' = FALSE
    /\ run_creates' = <<>>
    /\ UNCHANGED extVars
    /\ UNCHANGED <<dst_load, selected, source_rels, next_id, repli_paths,
                   created_replications, run_deletes, err, listed>>

\* ----------------------------------------------------- clean_replications
\* rm.clean_replications(basepath), as main calls it.
CleanStart(basepath) ==
    /\ pc = "idle"
    /\ pc' = "clean"
    /\ call' = [op |-> "clean", basepath |-> basepath, kw |-> "plain",
                filteri |-> {}, filtere |-> {}, dst_path |-> NoPrefix]
    /\ entries' = repli_paths
    /\ idx' = 1
    /\ run_deletes' = <<>>
    /\ err' = "none"
    /\ UNCHANGED extVars
    /\ UNCHANGED <<dst_load, selected, source_rels, next_id, repli_paths,
                   created_replications, first, run_creates, ret, listed>>

\* rm.clean_replications(basepath=..., filtere=...), as the tests of the filters
\* call it: TypeError, the method has no such parameter.
CleanRejected(basepath, f) ==
    /\ pc = "idle"
    /\ ret = Unset
    /\ pc' = "raised"
    /\ call' = [op |-> "clean", basepath |-> basepath, kw |-> "filter",
                filteri |-> f.filteri, filtere |-> f.filtere, dst_path |-> NoPrefix]
    /\ entries' = repli_paths
    /\ idx' = 1
    /\ run_deletes' = <<>>
    /\ err' = "TypeError"
    /\ UNCHANGED extVars
    /\ UNCHANGED <<dst_load, selected, source_rels, next_id, repli_paths,
                   created_replications, first, run_creates, ret, listed>>

InCleanLoop == pc = "clean" /\ idx <= Len(entries)

\* if path.startswith(basepath)
MustDelete == InCleanLoop /\ StartsWith(entries[idx].path, call.basepath)

\* the path does not start with basepath: next item
CleanSkip ==
    /\ InCleanLoop
    /\ ~StartsWith(entries[idx].path, call.basepath)
    /\ idx' = idx + 1
    /\ UNCHANGED extVars
    /\ UNCHANGED <<dst_load, selected, source_rels, next_id, repli_paths,
                   created_replications, pc, call, entries, first, run_creates,
                   run_deletes, ret, err, listed>>

Without(rels, rid) == SelectSeq(rels, LAMBDA r : r.id # rid)

\* delete_source_relationship(rid) succeeds: the cluster drops the relationship.
CleanDeleteOk ==
    /\ MustDelete
    /\ \E i \in 1..Len(source_rels) : source_rels[i].id = entries[idx].replid
    /\ source_rels' = Without(source_rels, entries[idx].replid)
    /\ run_deletes' = Append(run_deletes, entries[idx].replid)
    /\ idx' = idx + 1
    /\ UNCHANGED extVars
    /\ UNCHANGED <<dst_load, selected, next_id, repli_paths, created_replications, pc,
                   call, entries, first, run_creates, ret, err, listed>>

\* delete_source_relationship(rid) raises (always so for an id the cluster no
\* longer has): nothing in clean_replications catches it.
CleanDeleteFail ==
    /\ MustDelete
    /\ run_deletes' = Append(run_deletes, entries[idx].replid)
    /\ pc' = "raised"
    /\ err' = "RequestError"
    /\ UNCHANGED extVars
    /\ UNCHANGED <<dst_load, selected, source_rels, next_id, repli_paths,
                   created_replications, call, entries, idx, first, run_creates, ret,
                   listed>>

\* the items are exhausted: the method has no return statement, so the caller
\* gets None
CleanReturn ==
    /\ pc = "clean"
    /\ idx > Len(entries)
    /\ pc' = "idle"
    /\ ret' = NoneValue
    /\ call' = NoCall
    /\ entries' = <<>>
    /\ idx' = 0
    /\ run_deletes' = <<>>
    /\ UNCHANGED extVars
    /\ UNCHANGED <<dst_load, selected, source_rels, next_id, repli_paths,
                   created_replications, first, run_creates, err, listed>>

\* ----------------------------------------------------------- validate_args
ActionChoices == {"summary", "create", "clean", "accept"}

\* A host or user argument: not given (None), given empty, or given.
ArgValues == {"None", "", "given"}

\* --filteri / --filtere as the tests of validate_args set them: None or a list.
FilterValues == {"None", "list"}

\* Faulty variant of Truthy: "is not None", so that an empty string counts.
TruthyNotNone(x) == x # "None"

\* Python's truth value of an optional string
Truthy(x) == x \notin {"None", ""}

NoArgs == [action |-> "none", src_host |-> "None", src_user |-> "None",
           dst_host |-> "None", dst_user |-> "None", filteri |-> "None", filtere |-> "None"]

AllArgs == [action : ActionChoices, src_host : ArgValues, src_user : ArgValues,
            dst_host : ArgValues, dst_user : ArgValues,
            filteri : FilterValues, filtere : FilterValues]

\* The checks validate_args makes before it creates a client, in their order:
\* the message of the ValueError, "none" when all pass.  No check reads filteri
\* or filtere.
ArgsError(a) ==
    IF a.action \in {"summary", "create"} /\ (~Truthy(a.src_host) \/ ~Truthy(a.src_user))
    THEN "--src_host and --src_user are required"
    ELSE IF a.action = "create" /\ (~Truthy(a.dst_host) \/ ~Truthy(a.dst_user))
    THEN "--dst_host and --dst_user are required for 'create'"
    ELSE IF /\ a.action = "clean"
            /\ ~(Truthy(a.src_host) /\ Truthy(a.src_user))
            /\ ~(Truthy(a.dst_host) /\ Truthy(a.dst_user))
    THEN "'clean' action requires at least src or dst credentials"
    ELSE IF a.action = "accept" /\ (~Truthy(a.dst_host) \/ ~Truthy(a.dst_user))
    THEN "--dst_host and --dst_user are required for 'accept'"
    ELSE "none"

\* one of the checks raises ValueError
ValidateRaise ==
    /\ vpc = "start"
    /\ ArgsError(args) # "none"
    /\ vpc' = "raised"
    /\ verr' = ArgsError(args)
    /\ UNCHANGED <<coreVars, dstVars, netVars, runVars, args, factory_calls, clients>>

\* all checks pass: src_client = None, dst_client = None
ValidatePass ==
    /\ vpc = "start"
    /\ ArgsError(args) = "none"
    /\ vpc' = "connect_src"
    /\ clients' = [src |-> FALSE, dst |-> FALSE]
    /\ UNCHANGED <<coreVars, dstVars, netVars, runVars, args, factory_calls, verr>>

\* if args.src_host and args.src_user: src_client = client_factory(src_creds)
ConnectSrc ==
    /\ vpc = "connect_src"
    /\ vpc' = "connect_dst"
    /\ IF Truthy(args.src_host) /\ Truthy(args.src_user)
       THEN /\ factory_calls' = Append(factory_calls, "src")
            /\ clients' = [clients EXCEPT !.src = TRUE]
       ELSE UNCHANGED <<factory_calls, clients>>
    /\ UNCHANGED <<coreVars, dstVars, netVars, runVars, args, verr>>

\* if args.dst_host and args.dst_user: dst_client = client_factory(dst_creds)
ConnectDst ==
    /\ vpc = "connect_dst"
    /\ vpc' = "return"
    /\ IF Truthy(args.dst_host) /\ Truthy(args.dst_user)
       THEN /\ factory_calls' = Append(factory_calls, "dst")
            /\ clients' = [clients EXCEPT !.dst = TRUE]
       ELSE UNCHANGED <<factory_calls, clients>>
    /\ UNCHANGED <<coreVars, dstVars, netVars, runVars, args, verr>>

\* return src_client, dst_client
ValidateReturn ==
    /\ vpc = "return"
    /\ vpc' = "done"
    /\ UNCHANGED <<coreVars, dstVars, netVars, runVars, args, factory_calls, clients, verr>>

\* ------------------------------------------- the destination's relationships
\* Cap on the relationships the destination cluster lists.
NumTargetRels == 2

\* The values of the "state" field the cluster reports, in the spellings the
\* code compares against.
TargetStates == {"AWAITING_AUTHORIZATION", "pending", "ESTABLISHED", "ENDED"}

\* The values of the "relationship_state" field: "" is rel.get's default for a
\* record without the field.
AltStates == {"", "Pending"}

TargetPaths == {P_dx, P_ddx}

\* str.upper on the state strings above
Upper(s) ==
    CASE s = "pending" -> "PENDING"
      [] s = "Pending" -> "PENDING"
      [] OTHER -> s

\* What the operator types at the prompt.
Responses == {"yes", "Y", "Yes", "no", "", " y"}

\* str.lower on the answers above
Lower(s) ==
    CASE s = "Y" -> "y"
      [] s = "Yes" -> "yes"
      [] OTHER -> s

\* list_target_relationship_statuses() at the start: ids 1..n in listing order.
InitialTargetRels ==
    UNION {[1..n -> [state : TargetStates, relationship_state : AltStates,
                     target_root_path : TargetPaths]] : n \in 0..NumTargetRels}

TargetRel(i, f) ==
    [id |-> i, state |-> f.state, relationship_state |-> f.relationship_state,
     target_root_path |-> f.target_root_path, source_cluster_name |-> "src"]

\* What a TargetCluster method handed back: nothing yet, a list, or an integer.
UnsetD == [kind |-> "unset", list |-> <<>>, n |-> 0]
ListValueD(l) == [kind |-> "list", list |-> l, n |-> 0]
IntValueD(n) == [kind |-> "int", list |-> <<>>, n |-> n]

NoDstCall == [op |-> "none", confirm |-> FALSE, response |-> "", basepath |-> <<>>,
              allow_non_empty_dir |-> FALSE]

NoLog == [text |-> <<>>, log |-> <<>>]

\* the locals of a method that is not running
DstLocalsReset ==
    /\ dcall' = NoDstCall
    /\ cands' = <<>>
    /\ didx' = 0
    /\ attempts' = <<>>
    /\ accepted' = <<>>
    /\ deleted_count' = 0
    /\ prompts' = 0
    /\ logged' = NoLog

\* ---------------------------------------------- accept_pending_replications
\* Faulty variant of IsPending: only the "state" field is looked at.
IsPendingStateOnly(rel) ==
    Upper(rel.state) \in {"AWAITING_AUTHORIZATION", "PENDING"}

\* the test of the filter loop, on both state fields
IsPending(rel) ==
    \/ Upper(rel.state) = "AWAITING_AUTHORIZATION"
    \/ Upper(rel.state) = "PENDING"
    \/ Upper(rel.relationship_state) = "AWAITING_AUTHORIZATION"
    \/ Upper(rel.relationship_state) = "PENDING"

\* Faulty variant of Confirmed: any answer but "no" goes ahead.
ConfirmedUnlessNo(response) == Lower(response) # "no"

\* response.lower() in ["yes", "y"]
Confirmed(response) == Lower(response) \in {"yes", "y"}

\* The call up to the loop that accepts: the listing is fetched and filtered;
\* with nothing pending the method returns [], with confirm it prompts next.
AcceptStart(confirm, allow_non_empty_dir) ==
    /\ dpc = "idle"
    /\ LET pending == SelectSeq(target_rels, IsPending) IN
        /\ cands' = pending
        /\ dpc' = IF pending = <<>> THEN "return"
                  ELSE IF confirm THEN "prompt" ELSE "accept"
    /\ dcall' = [op |-> "accept", confirm |-> confirm, response |-> "", basepath |-> <<>>,
                 allow_non_empty_dir |-> allow_non_empty_dir]
    /\ didx' = 1
    /\ attempts' = <<>>
    /\ accepted' = <<>>
    /\ prompts' = 0
    /\ UNCHANGED <<coreVars, argVars, netVars, runVars, target_rels, deleted_count, dret,
                   logged>>

\* response = input(...): any other answer than yes or y returns []
AcceptAnswer(response) ==
    /\ dpc = "prompt"
    /\ prompts' = prompts + 1
    /\ dcall' = [dcall EXCEPT !.response = response]
    /\ dpc' = IF Confirmed(response) THEN "accept" ELSE "return"
    /\ UNCHANGED <<coreVars, argVars, netVars, runVars, target_rels, cands, didx, attempts, accepted,
                   deleted_count, dret, logged>>

InAcceptLoop == dpc = "accept" /\ didx <= Len(cands)

\* Faulty variant of AcceptedRecord: the path is the default of rel.get.
AcceptedRecordNoPath(rel) ==
    [id |-> rel.id, target_path |-> <<"N", "/", "A">>,
     source_cluster |-> rel.source_cluster_name]

\* The record accepted.append() is given for a candidate.
AcceptedRecord(rel) ==
    [id |-> rel.id, target_path |-> rel.target_root_path,
     source_cluster |-> rel.source_cluster_name]

\* The cluster's list once relationship rid is authorized.
Authorized(rels, rid) ==
    [i \in 1..Len(rels) |->
        IF rels[i].id = rid
        THEN [rels[i] EXCEPT !.state = "ESTABLISHED", !.relationship_state = ""]
        ELSE rels[i]]

\* authorize(rel_id, ...) succeeds
AuthorizeOk ==
    /\ InAcceptLoop
    /\ attempts' = Append(attempts, [id |-> cands[didx].id, ok |-> TRUE])
    /\ accepted' = Append(accepted, AcceptedRecord(cands[didx]))
    /\ target_rels' = Authorized(target_rels, cands[didx].id)
    /\ didx' = didx + 1
    /\ logged' = NoLog
    /\ UNCHANGED <<coreVars, argVars, netVars, runVars, dpc, dcall, cands, deleted_count,
                   prompts, dret>>

\* The texts str(e) of the exceptions authorize raises, as lines: a 400 for a
\* target directory that is not empty, another 400 and a 500, each with a
\* backtrace below the first line.
ErrorTexts ==
    {<<"Error 400: fs_directory_not_empty_error", "Traceback (most recent call last)">>,
     <<"Error 400: fs_no_such_entry_error", "Traceback (most recent call last)">>,
     <<"Error 500: internal_error", "Traceback (most recent call last)">>}

\* "Error 400:" in error_msg
HasError400(text) ==
    \E i \in 1..Len(text) :
        text[i] \in {"Error 400: fs_directory_not_empty_error",
                     "Error 400: fs_no_such_entry_error"}

\* "not_empty" in error_msg.lower()
HasNotEmpty(text) ==
    \E i \in 1..Len(text) : text[i] = "Error 400: fs_directory_not_empty_error"

HintLine == "Target directory not empty. Use --allow_non_empty_dir to override."

\* What the except clause hands logger.error after "Failed to accept ...: ",
\* as lines.
Logged(text, allow_non_empty_dir) ==
    IF HasError400(text)
    THEN IF HasNotEmpty(text) /\ ~allow_non_empty_dir
         THEN <<HintLine>>
         ELSE <<text[1]>>
    ELSE text

\* authorize(rel_id, ...) raises: the except clause logs, the loop goes on
AuthorizeFail ==
    /\ InAcceptLoop
    /\ attempts' = Append(attempts, [id |-> cands[didx].id, ok |-> FALSE])
    /\ \E text \in ErrorTexts :
        logged' = [text |-> text, log |-> Logged(text, dcall.allow_non_empty_dir)]
    /\ didx' = didx + 1
    /\ UNCHANGED <<coreVars, argVars, netVars, runVars, target_rels, dpc, dcall, cands, accepted,
                   deleted_count, prompts, dret>>

\* return [] (nothing pending, or cancelled) or return accepted
AcceptReturn ==
    /\ dcall.op = "accept"
    /\ dpc = "return" \/ (dpc = "accept" /\ didx > Len(cands))
    /\ dpc' = "idle"
    /\ dret' = ListValueD(accepted)
    /\ DstLocalsReset
    /\ UNCHANGED <<coreVars, argVars, netVars, runVars, target_rels>>

\* ------------------------------------------------- clean_ended_replications
\* Faulty variant of IsEnded: the base path is not looked at.
IsEndedAnywhere(rel, basepath) == rel.state = "ENDED"

\* state == "ENDED" and target_path.startswith(basepath)
IsEnded(rel, basepath) ==
    rel.state = "ENDED" /\ StartsWith(rel.target_root_path, basepath)

\* The call up to the loop that deletes: the listing is fetched and filtered;
\* with nothing to delete the method returns 0.
EndedStart(basepath) ==
    /\ dpc = "idle"
    /\ LET ended == SelectSeq(target_rels, LAMBDA r : IsEnded(r, basepath)) IN
        /\ cands' = ended
        /\ dpc' = IF ended = <<>> THEN "return" ELSE "ended"
    /\ dcall' = [op |-> "ended", confirm |-> FALSE, response |-> "", basepath |-> basepath,
                 allow_non_empty_dir |-> FALSE]
    /\ didx' = 1
    /\ attempts' = <<>>
    /\ deleted_count' = 0
    /\ UNCHANGED <<coreVars, argVars, netVars, runVars, target_rels, accepted, prompts, dret,
                   logged>>

InEndedLoop == dpc = "ended" /\ didx <= Len(cands)

\* delete_target_relationship(rel["id"]) succeeds: the cluster drops it
EndedDeleteOk ==
    /\ InEndedLoop
    /\ attempts' = Append(attempts, [id |-> cands[didx].id, ok |-> TRUE])
    /\ target_rels' = SelectSeq(target_rels, LAMBDA r : r.id # cands[didx].id)
    /\ deleted_count' = deleted_count + 1
    /\ didx' = didx + 1
    /\ UNCHANGED <<coreVars, argVars, netVars, runVars, dpc, dcall, cands, accepted, prompts,
                   dret, logged>>

\* delete_target_relationship(rel["id"]) raises: the except clause logs, the
\* loop goes on
EndedDeleteFail ==
    /\ InEndedLoop
    /\ attempts' = Append(attempts, [id |-> cands[didx].id, ok |-> FALSE])
    /\ didx' = didx + 1
    /\ UNCHANGED <<coreVars, argVars, netVars, runVars, target_rels, dpc, dcall, cands, accepted,
                   deleted_count, prompts, dret, logged>>

\* return 0 (nothing ended under basepath) or return deleted_count
EndedReturn ==
    /\ dcall.op = "ended"
    /\ dpc = "return" \/ (dpc = "ended" /\ didx > Len(cands))
    /\ dpc' = "idle"
    /\ dret' = IntValueD(deleted_count)
    /\ DstLocalsReset
    /\ UNCHANGED <<coreVars, argVars, netVars, runVars, target_rels>>

\* ------------------------------------------------- TargetCluster.__init__
\* Number of networks the cluster may report in its floating address allocation.
NumNetworks == 2

\* Cap on the length of --dst, the addresses the user lists.
MaxUserIps == 2

\* The ids of the networks the cluster may report, and the ids a caller may ask
\* for (one more: a network the cluster never reports).
NetworkIds == 1..NumNetworks
RequestedIds == 1..(NumNetworks + 1)

\* Addresses no network of the cluster has (10.1.1.99 and 10.1.1.100 in the tests).
ForeignIps == {98, 99}

\* What the user may list: two of the cluster's addresses and the foreign ones.
UserIpChoices == {1, 2} \cup ForeignIps

\* The floating addresses of one entry: none, or the first n of the cluster.
AddressLists == {[i \in 1..n |-> i] : n \in 0..NumFips}

\* The allocation as the cluster reports it: one entry per network id, in any
\* order (the fake of the tests builds it from a dict keyed by id).
FipDatas ==
    {d \in UNION {[1..n -> [id : NetworkIds, floating_addresses : AddressLists]] :
                    n \in 0..NumNetworks} :
        \A i, j \in 1..Len(d) : i # j => d[i].id # d[j].id}

\* user_provided_ips: None, or a list (possibly empty, possibly with repeats).
NoUserIps == [given |-> FALSE, ips |-> <<>>]

UserIpArgs ==
    {NoUserIps} \cup
    {[given |-> TRUE, ips |-> l] : l \in UNION {[1..n -> UserIpChoices] : n \in 0..MaxUserIps}}

\* The constructor calls: main's and the tests' of src/test_target_cluster.py
\* give network_id, the tests of src/tests give network_name (and no addresses).
CtorCalls ==
    {[user_ips |-> u, network |-> n, kw |-> "network_id"] :
        u \in UserIpArgs, n \in RequestedIds}
    \cup {[user_ips |-> NoUserIps, network |-> n, kw |-> "network_name"] :
            n \in RequestedIds}

NoCtor == [user_ips |-> NoUserIps, network |-> 0, kw |-> "none"]

NoError == [kind |-> "none", what |-> "none", network |-> 0, available |-> {}, ips |-> <<>>]

\* What the message of an exception names: the network asked for, the networks
\* available, the addresses refused.
ErrorOf(kind, what, network, available, ips) ==
    [kind |-> kind, what |-> what, network |-> network, available |-> available, ips |-> ips]

\* Faulty variant of HasUserIps: "is not None" in place of the truth value, so
\* that an empty list counts as a list.
HasUserIpsNotNone(c) == c.user_ips.given

\* the truth value of a list: None and [] are false
HasUserIps(c) == c.user_ips.given /\ c.user_ips.ips # <<>>

\* The loop of get_dst_ips: the first entry whose id is network_id, 0 if none.
MatchingNetwork(data, network_id) ==
    IF \E i \in 1..Len(data) : data[i].id = network_id
    THEN CHOOSE i \in 1..Len(data) :
            /\ data[i].id = network_id
            /\ \A j \in 1..(i-1) : data[j].id # network_id
    ELSE 0

\* TargetCluster(client, network_name=...): __init__ has no such parameter, the
\* call raises TypeError before its body runs.
CtorRejected ==
    /\ cpc = "start"
    /\ ctor.kw = "network_name"
    /\ cpc' = "raised"
    /\ cerr' = ErrorOf("TypeError", "unexpected keyword argument 'network_name'", 0, {}, <<>>)
    /\ UNCHANGED <<coreVars, argVars, dstVars, runVars, fip_data, ctor, cluster_fips, available_ips>>

\* get_dst_ips raises: no entry has the id, or the entry has no address
GetDstIpsRaise ==
    /\ cpc = "start"
    /\ ctor.kw = "network_id"
    /\ LET m == MatchingNetwork(fip_data, ctor.network) IN
        /\ IF m = 0 THEN TRUE ELSE fip_data[m].floating_addresses = <<>>
        /\ cerr' = IF m = 0
                   THEN ErrorOf("ValueError", "not found in cluster", ctor.network, {}, <<>>)
                   ELSE ErrorOf("ValueError", "has no Floating IPs available",
                                ctor.network, {}, <<>>)
    /\ cpc' = "raised"
    /\ UNCHANGED <<coreVars, argVars, dstVars, runVars, fip_data, ctor, cluster_fips, available_ips>>

\* get_dst_ips returns the addresses of the matching entry
GetDstIpsOk ==
    /\ cpc = "start"
    /\ ctor.kw = "network_id"
    /\ LET m == MatchingNetwork(fip_data, ctor.network) IN
        /\ m # 0
        /\ fip_data[m].floating_addresses # <<>>
        /\ cluster_fips' = fip_data[m].floating_addresses
    /\ cpc' = "fetched"
    /\ UNCHANGED <<coreVars, argVars, dstVars, runVars, fip_data, ctor, available_ips, cerr>>

\* Faulty variant of InvalidIps: the first offending address alone.
InvalidIpsFirstOnly(user_ips, fips) ==
    LET bad == SelectSeq(user_ips, LAMBDA ip : ip \notin Range(fips)) IN
        IF bad = <<>> THEN <<>> ELSE <<bad[1]>>

\* invalid_ips = [ip for ip in user_ips if ip not in cluster_fips]
InvalidIps(user_ips, fips) == SelectSeq(user_ips, LAMBDA ip : ip \notin Range(fips))

\* _validate_ips raises: some listed address is not among the cluster's
ValidateIpsRaise ==
    /\ cpc = "fetched"
    /\ HasUserIps(ctor)
    /\ InvalidIps(ctor.user_ips.ips, cluster_fips) # <<>>
    /\ cpc' = "raised"
    /\ cerr' = ErrorOf("ValueError", "Invalid destination IPs not found in cluster FIPs",
                       0, {}, InvalidIps(ctor.user_ips.ips, cluster_fips))
    /\ UNCHANGED <<coreVars, argVars, dstVars, runVars, fip_data, ctor, cluster_fips, available_ips>>

\* self.available_ips = user_ips (all valid) or the cluster's addresses
SetAvailableIps ==
    /\ cpc = "fetched"
    /\ HasUserIps(ctor) => InvalidIps(ctor.user_ips.ips, cluster_fips) = <<>>
    /\ available_ips' = IF HasUserIps(ctor) THEN ctor.user_ips.ips ELSE cluster_fips
    /\ cpc' = "load"
    /\ UNCHANGED <<coreVars, argVars, dstVars, runVars, fip_data, ctor, cluster_fips, cerr>>

\* The keys a dict gets from assignments in the order of ips: a repeated key
\* keeps its first place.
RECURSIVE Keys(_)
Keys(ips) ==
    IF ips = <<>> THEN <<>>
    ELSE LET before == Keys(SubSeq(ips, 1, Len(ips) - 1)) IN
            IF Last(ips) \in Range(before) THEN before ELSE Append(before, Last(ips))

\* for ip in self.available_ips: self.dst_load[ip] = 0
LoadPool ==
    /\ cpc = "load"
    /\ dst_load' = NewPool(Keys(available_ips))
    /\ cpc' = "done"
    /\ UNCHANGED <<selected, mgrVars, argVars, dstVars, runVars, fip_data, ctor, cluster_fips,
                   available_ips, cerr>>

\* -------------------------------------------------------------------- main
\* The command lines main is run with: any action, each host and user given or
\* not, no filter.
MainArgs ==
    {a \in AllArgs :
        /\ a.filteri = "None" /\ a.filtere = "None"
        /\ \A f \in {"src_host", "src_user", "dst_host", "dst_user"} : a[f] # ""}

\* What the destination reports when main asks: no network, or one.
MainFipDatas == {d \in FipDatas : Len(d) <= 1}

\* --dst and --dst_network_id: no address, one of the cluster's, a foreign one.
MainCtorCalls ==
    {[user_ips |-> u, network |-> n, kw |-> "network_id"] :
        u \in {NoUserIps, [given |-> TRUE, ips |-> <<1>>], [given |-> TRUE, ips |-> <<98>>]},
        n \in RequestedIds}

\* The destination's relationships in a run of main: none, or one that awaits
\* authorization and one that has ended.
MainTargetRels ==
    {<<>>,
     <<[state |-> "AWAITING_AUTHORIZATION", relationship_state |-> "",
        target_root_path |-> P_dx],
       [state |-> "ENDED", relationship_state |-> "", target_root_path |-> P_dx]>>}

\* except ValueError as e: logger.error(str(e)); sys.exit(1)
MainExit ==
    /\ main.pc = "validate"
    /\ vpc = "raised"
    /\ main' = [main EXCEPT !.pc = "exit"]
    /\ UNCHANGED <<coreVars, argVars, dstVars, netVars, procs>>

\* Faulty variant of CtorOver: an exception of the constructor is passed over.
CtorOverOrRaised == cpc \in {"done", "raised"}

\* the constructor returned: target_cluster is bound
CtorOver == cpc = "done"

\* if dst_client: target_cluster = TargetCluster(dst_client, user_provided_ips=
\* args.dst, network_id=int(args.dst_network_id)); the destination's report is
\* what it is when the constructor asks
MainConstruct(c, data) ==
    /\ main.pc = "validate"
    /\ vpc = "done"
    /\ clients.dst
    /\ ctor' = c
    /\ fip_data' = data
    /\ cpc' = "start"
    /\ main' = [main EXCEPT !.pc = "construct"]
    /\ UNCHANGED <<coreVars, argVars, dstVars, cluster_fips, available_ips, cerr, procs>>

\* dst_client is None: target_cluster stays None
MainNoTarget ==
    /\ main.pc = "validate"
    /\ vpc = "done"
    /\ ~clients.dst
    /\ main' = [main EXCEPT !.pc = "dispatch"]
    /\ UNCHANGED <<coreVars, argVars, dstVars, netVars, procs>>

\* the constructor is over: main goes on to the action
MainConstructed ==
    /\ main.pc = "construct"
    /\ CtorOver
    /\ main' = [main EXCEPT !.pc = "dispatch"]
    /\ UNCHANGED <<coreVars, argVars, dstVars, netVars, procs>>

\* the constructor raised: nothing in main catches it, the run ends there
MainDies ==
    /\ main.pc = "construct"
    /\ cpc = "raised"
    /\ main' = [main EXCEPT !.pc = "died"]
    /\ UNCHANGED <<coreVars, argVars, dstVars, netVars, procs>>

\* if args.action == "summary" ... elif "create" ... elif "clean" ... elif
\* "accept": summary reads and prints; create and clean (with a source client)
\* populate first; clean without a source client goes to the destination
MainDispatch ==
    /\ main.pc = "dispatch"
    /\ main' = [main EXCEPT !.pc =
            CASE args.action = "summary" -> "end"
              [] args.action = "create" -> "populate"
              [] args.action = "clean" -> IF clients.src THEN "populate" ELSE "ended"
              [] OTHER -> "accept"]
    /\ UNCHANGED <<coreVars, argVars, dstVars, netVars, procs>>

\* rm.populate_replication_cache()
MainPopulate ==
    /\ main.pc = "populate"
    /\ repli_paths' = Populated(repli_paths, source_rels)
    /\ listed' = {source_rels[i].source_root_path : i \in 1..Len(source_rels)}
    /\ main' = [main EXCEPT !.pc = IF args.action = "create" THEN "create" ELSE "clean"]
    /\ UNCHANGED <<dst_load, selected, source_rels, next_id, created_replications, pc, call,
                   entries, idx, first, run_creates, run_deletes, ret, err>>
    /\ UNCHANGED <<argVars, dstVars, netVars, procs>>

\* rm.create_replications(args.basepath, dst=target_cluster)
MainCreate(walk) ==
    /\ main.pc = "create"
    /\ ret = Unset
    /\ CreateStart(main.basepath, walk)

\* rm.clean_replications(args.basepath)
MainClean ==
    /\ main.pc = "clean"
    /\ ret = Unset
    /\ CleanStart(main.basepath)

\* clean_replications returned: if target_cluster, the destination is next
MainCleaned ==
    /\ main.pc = "clean"
    /\ pc = "idle"
    /\ ret # Unset
    /\ main' = [main EXCEPT !.pc = IF clients.dst THEN "ended" ELSE "end"]
    /\ UNCHANGED <<coreVars, argVars, dstVars, netVars, procs>>

\* target_cluster.clean_ended_replications(basepath=args.basepath)
MainCleanEnded ==
    /\ main.pc = "ended"
    /\ dret = UnsetD
    /\ EndedStart(main.basepath)

\* target_cluster.accept_pending_replications(allow_non_empty_dir=
\* args.allow_non_empty_dir, confirm=args.confirm)
MainAccept(confirm, allow_non_empty_dir) ==
    /\ main.pc = "accept"
    /\ dret = UnsetD
    /\ AcceptStart(confirm, allow_non_empty_dir)

\* the method of the action returned: main falls off its end
MainEnd ==
    /\ \/ main.pc = "create" /\ pc = "idle" /\ ret # Unset
       \/ main.pc \in {"ended", "accept"} /\ dpc = "idle" /\ dret # UnsetD
    /\ main' = [main EXCEPT !.pc = "end"]
    /\ UNCHANGED <<coreVars, argVars, dstVars, netVars, procs>>

\* --------------------------------------- concurrent invocations of create
\* Two invocations of the program with the create action over the same base
\* path, against the same clusters: each process has its own manager (cache) and
\* its own pool, the source cluster is shared.
Procs == {1, 2}

NewProc(basepath, walk, ips) ==
    [pc |-> "populate", basepath |-> basepath, walk |-> walk, repli_paths |-> <<>>,
     dst_load |-> NewPool(ips), entries |-> <<>>, idx |-> 0, first |-> FALSE,
     run_creates |-> <<>>]

\* what a step of an invocation leaves alone
procFrame ==
    <<dst_load, selected, repli_paths, created_replications, pc, call, entries, idx,
      first, run_creates, run_deletes, ret, err, listed, argVars, dstVars, netVars, main>>

\* Faulty variant of Known: the source cluster is asked again at the check.
KnownLive(path, p) ==
    \/ InCache(path, procs[p].repli_paths)
    \/ \E i \in 1..Len(source_rels) : source_rels[i].source_root_path = path

\* path in self.repli_paths, in invocation p
Known(path, p) == InCache(path, procs[p].repli_paths)

\* rm.populate_replication_cache() in invocation p
ProcPopulate(p) ==
    /\ procs[p].pc = "populate"
    /\ procs' = [procs EXCEPT ![p].repli_paths = Populated(@, source_rels),
                              ![p].pc = "start"]
    /\ UNCHANGED <<source_rels, next_id, procFrame>>

\* rm.create_replications(args.basepath, dst=target_cluster) in invocation p
ProcCreateStart(p) ==
    /\ procs[p].pc = "start"
    /\ procs' = [procs EXCEPT ![p].entries = procs[p].walk,
                              ![p].idx = 1,
                              ![p].first = TRUE,
                              ![p].pc = "create"]
    /\ UNCHANGED <<source_rels, next_id, procFrame>>

ProcInLoop(p) == procs[p].pc = "create" /\ procs[p].idx <= Len(procs[p].entries)

ProcMustCreate(p) ==
    /\ ProcInLoop(p)
    /\ ~procs[p].first
    /\ procs[p].entries[procs[p].idx].type = DIRECTORY
    /\ ~Known(procs[p].entries[procs[p].idx].path, p)

\* the base directory, a file, or a path in the cache: next entry
ProcSkip(p) ==
    /\ ProcInLoop(p)
    /\ ~ProcMustCreate(p)
    /\ procs' = [procs EXCEPT ![p].idx = @ + 1, ![p].first = FALSE]
    /\ UNCHANGED <<source_rels, next_id, procFrame>>

ProcCreateArgs(p) ==
    [address |-> procs[p].dst_load[MinIndex(procs[p].dst_load)].ip,
     source_path |-> procs[p].entries[procs[p].idx].path,
     target_path |-> procs[p].entries[procs[p].idx].path]

\* dst.get_next_dst_ip(), then create_source_relationship succeeds
ProcCreateOk(p) ==
    /\ ProcMustCreate(p)
    /\ procs' = [procs EXCEPT
            ![p].dst_load = Bump(@, MinIndex(@)),
            ![p].run_creates = Append(@, ProcCreateArgs(p)),
            ![p].idx = @ + 1]
    /\ source_rels' = Append(source_rels,
            [id |-> next_id, source_root_path |-> ProcCreateArgs(p).source_path,
             target_address |-> ProcCreateArgs(p).address])
    /\ next_id' = next_id + 1
    /\ UNCHANGED procFrame

\* dst.get_next_dst_ip(), then create_source_relationship raises
ProcCreateFail(p) ==
    /\ ProcMustCreate(p)
    /\ procs' = [procs EXCEPT
            ![p].dst_load = Bump(@, MinIndex(@)),
            ![p].run_creates = Append(@, ProcCreateArgs(p)),
            ![p].pc = "raised"]
    /\ UNCHANGED <<source_rels, next_id, procFrame>>

\* the walk is exhausted
ProcReturn(p) ==
    /\ procs[p].pc = "create"
    /\ procs[p].idx > Len(procs[p].entries)
    /\ procs' = [procs EXCEPT ![p].pc = "done"]
    /\ UNCHANGED <<source_rels, next_id, procFrame>>

\* -------------------------------------------------------- specifications
MgrInit ==
    /\ source_rels = <<>>
    /\ next_id = 1
    /\ repli_paths = <<>>
    /\ created_replications = <<>>
    /\ pc = "idle"
    /\ call = NoCall
    /\ entries = <<>>
    /\ idx = 0
    /\ first = FALSE
    /\ run_creates = <<>>
    /\ run_deletes = <<>>
    /\ ret = Unset
    /\ err = "none"
    /\ listed = {}

\* validate_args is not running
ArgsIdle ==
    /\ args = NoArgs
    /\ vpc = "off"
    /\ factory_calls = <<>>
    /\ clients = [src |-> FALSE, dst |-> FALSE]
    /\ verr = "none"

\* no destination cluster in play
DstIdle ==
    /\ target_rels = <<>>
    /\ dpc = "off"
    /\ dcall = NoDstCall
    /\ cands = <<>>
    /\ didx = 0
    /\ attempts = <<>>
    /\ accepted = <<>>
    /\ deleted_count = 0
    /\ prompts = 0
    /\ dret = UnsetD
    /\ logged = NoLog

\* no TargetCluster is being constructed
NetIdle ==
    /\ fip_data = <<>>
    /\ ctor = NoCtor
    /\ cpc = "off"
    /\ cluster_fips = <<>>
    /\ available_ips = <<>>
    /\ cerr = NoError

NoMain == [pc |-> "off", basepath |-> <<>>]

\* main is not running, alone or concurrently
RunIdle ==
    /\ main = NoMain
    /\ procs = <<>>

ExtIdle == ArgsIdle /\ DstIdle /\ NetIdle /\ RunIdle

\* no pool, and a manager nobody has called
CoreIdle ==
    /\ dst_load = <<>>
    /\ selected = <<>>
    /\ MgrInit

\* A freshly constructed pool: any non-empty list of distinct addresses, loads zero.
PoolInit ==
    /\ \E ips \in InjectiveSeqs(Fips) \ {<<>>} : dst_load = NewPool(ips)
    /\ selected = <<>>
    /\ MgrInit
    /\ ExtIdle

PoolNext == GetNextDstIp

SpecPool == PoolInit /\ [][PoolNext]_vars

\* A pool whose counters were set by hand after construction, as
\* test_load_balancing_with_initial_load and
\* test_workflow_with_existing_replication_load do.
SkewInit ==
    /\ \E ips \in InjectiveSeqs(Fips) \ {<<>>} :
        \E l \in [1..Len(ips) -> 0..MaxLoad] :
            dst_load = [i \in 1..Len(ips) |-> [ip |-> ips[i], load |-> l[i]]]
    /\ selected = <<>>
    /\ MgrInit
    /\ ExtIdle

SpecSkew == SkewInit /\ [][PoolNext]_vars

\* The caller keeps calling: the comprehension / loop of the tests runs to its end.
FairSpecSkew == SkewInit /\ [][PoolNext]_vars /\ WF_vars(GetNextDstIp)

\* One manager and one pool against a source cluster that already holds some
\* relationships; the methods are called in any order, one at a time.  The pool
\* holds the first n floating addresses of the cluster, in the cluster's order.
Init ==
    /\ \E n \in 1..NumFips : dst_load = NewPool([i \in 1..n |-> i])
    /\ selected = <<>>
    /\ \E rels \in InitialRels :
        /\ source_rels = rels
        /\ next_id = Len(rels) + 1
    /\ repli_paths = <<>>
    /\ created_replications = <<>>
    /\ pc = "idle"
    /\ call = NoCall
    /\ entries = <<>>
    /\ idx = 0
    /\ first = FALSE
    /\ run_creates = <<>>
    /\ run_deletes = <<>>
    /\ ret = Unset
    /\ err = "none"
    /\ listed = {}
    /\ ExtIdle

Next ==
    \/ Populate
    \/ \E b \in BasePaths : \E w \in Walks(b) : CreateStart(b, w)
    \/ \E b \in BasePaths : \E w \in Walks(b) : \E f \in CreateKeywords : CreateRejected(b, w, f)
    \/ CreateSkipFirst
    \/ CreateSkipOther
    \/ CreateSkipCached
    \/ CreateOk
    \/ CreateFail
    \/ CreateReturn
    \/ \E b \in BasePaths : CleanStart(b)
    \/ \E b \in BasePaths : \E f \in FilterArgs : CleanRejected(b, f)
    \/ CleanSkip
    \/ CleanDeleteOk
    \/ CleanDeleteFail
    \/ CleanReturn

Spec == Init /\ [][Next]_vars

\* validate_args(args, client_factory) on any command line the parser can hand it.
ArgsInit ==
    /\ CoreIdle
    /\ RunIdle
    /\ args \in AllArgs
    /\ vpc = "start"
    /\ factory_calls = <<>>
    /\ clients = [src |-> FALSE, dst |-> FALSE]
    /\ verr = "none"
    /\ DstIdle
    /\ NetIdle

ArgsNext ==
    \/ ValidateRaise
    \/ ValidatePass
    \/ ConnectSrc
    \/ ConnectDst
    \/ ValidateReturn

SpecArgs == ArgsInit /\ [][ArgsNext]_vars

\* One TargetCluster against a destination cluster that lists some relationships;
\* accept_pending_replications and clean_ended_replications are called in any
\* order, one at a time.
DstInit ==
    /\ CoreIdle
    /\ RunIdle
    /\ ArgsIdle
    /\ \E f \in InitialTargetRels : target_rels = [i \in 1..Len(f) |-> TargetRel(i, f[i])]
    /\ dpc = "idle"
    /\ dcall = NoDstCall
    /\ cands = <<>>
    /\ didx = 0
    /\ attempts = <<>>
    /\ accepted = <<>>
    /\ deleted_count = 0
    /\ prompts = 0
    /\ dret = UnsetD
    /\ logged = NoLog
    /\ NetIdle

DstNext ==
    \/ \E confirm, allow \in BOOLEAN : AcceptStart(confirm, allow)
    \/ \E response \in Responses : AcceptAnswer(response)
    \/ AuthorizeOk
    \/ AuthorizeFail
    \/ AcceptReturn
    \/ \E b \in BasePaths : EndedStart(b)
    \/ EndedDeleteOk
    \/ EndedDeleteFail
    \/ EndedReturn

SpecDst == DstInit /\ [][DstNext]_vars

\* TargetCluster(client, ...) against any allocation the cluster may report.
CtorInit ==
    /\ CoreIdle
    /\ RunIdle
    /\ ArgsIdle
    /\ DstIdle
    /\ fip_data \in FipDatas
    /\ ctor \in CtorCalls
    /\ cpc = "start"
    /\ cluster_fips = <<>>
    /\ available_ips = <<>>
    /\ cerr = NoError

CtorNext ==
    \/ CtorRejected
    \/ GetDstIpsRaise
    \/ GetDstIpsOk
    \/ ValidateIpsRaise
    \/ SetAvailableIps
    \/ LoadPool

SpecCtor == CtorInit /\ [][CtorNext]_vars

\* One run of main: the command line is validated, the clients, the manager and
\* the pool are made, then the action runs.
MainInit ==
    /\ dst_load = <<>>
    /\ selected = <<>>
    /\ \E rels \in InitialRels :
        /\ source_rels = rels
        /\ next_id = Len(rels) + 1
    /\ repli_paths = <<>>
    /\ created_replications = <<>>
    /\ pc = "idle"
    /\ call = NoCall
    /\ entries = <<>>
    /\ idx = 0
    /\ first = FALSE
    /\ run_creates = <<>>
    /\ run_deletes = <<>>
    /\ ret = Unset
    /\ err = "none"
    /\ listed = {}
    /\ args \in MainArgs
    /\ vpc = "start"
    /\ factory_calls = <<>>
    /\ clients = [src |-> FALSE, dst |-> FALSE]
    /\ verr = "none"
    /\ \E f \in MainTargetRels : target_rels = [i \in 1..Len(f) |-> TargetRel(i, f[i])]
    /\ dpc = "idle"
    /\ dcall = NoDstCall
    /\ cands = <<>>
    /\ didx = 0
    /\ attempts = <<>>
    /\ accepted = <<>>
    /\ deleted_count = 0
    /\ prompts = 0
    /\ dret = UnsetD
    /\ logged = NoLog
    /\ NetIdle
    /\ \E b \in BasePaths : main = [pc |-> "validate", basepath |-> b]
    /\ procs = <<>>

MainNext ==
    \/ ValidateRaise
    \/ ValidatePass
    \/ ConnectSrc
    \/ ConnectDst
    \/ ValidateReturn
    \/ MainExit
    \/ \E c \in MainCtorCalls : \E data \in MainFipDatas : MainConstruct(c, data)
    \/ MainNoTarget
    \/ GetDstIpsRaise
    \/ GetDstIpsOk
    \/ ValidateIpsRaise
    \/ SetAvailableIps
    \/ LoadPool
    \/ MainConstructed
    \/ MainDies
    \/ MainDispatch
    \/ MainPopulate
    \/ \E w \in Walks(main.basepath) : MainCreate(w)
    \/ CreateSkipFirst
    \/ CreateSkipOther
    \/ CreateSkipCached
    \/ CreateOk
    \/ CreateFail
    \/ CreateReturn
    \/ MainClean
    \/ CleanSkip
    \/ CleanDeleteOk
    \/ CleanDeleteFail
    \/ CleanReturn
    \/ MainCleaned
    \/ MainCleanEnded
    \/ EndedDeleteOk
    \/ EndedDeleteFail
    \/ EndedReturn
    \/ \E confirm, allow \in BOOLEAN : MainAccept(confirm, allow)
    \/ \E response \in Responses : AcceptAnswer(response)
    \/ AuthorizeOk
    \/ AuthorizeFail
    \/ AcceptReturn
    \/ MainEnd

SpecMain == MainInit /\ [][MainNext]_vars

\* Two concurrent runs of main with the create action, after validation and the
\* construction of the pool: the steps of the two interleave in any order.
TwoInit ==
    /\ dst_load = <<>>
    /\ selected = <<>>
    /\ \E rels \in InitialRels :
        /\ source_rels = rels
        /\ next_id = Len(rels) + 1
    /\ repli_paths = <<>>
    /\ created_replications = <<>>
    /\ pc = "idle"
    /\ call = NoCall
    /\ entries = <<>>
    /\ idx = 0
    /\ first = FALSE
    /\ run_creates = <<>>
    /\ run_deletes = <<>>
    /\ ret = Unset
    /\ err = "none"
    /\ listed = {}
    /\ ArgsIdle
    /\ DstIdle
    /\ NetIdle
    /\ main = NoMain
    /\ \E b \in BasePaths : \E w \in Walks(b) : \E n \in 1..NumFips :
        procs = [p \in Procs |-> NewProc(b, w, [i \in 1..n |-> i])]

TwoNext ==
    \E p \in Procs :
        \/ ProcPopulate(p)
        \/ ProcCreateStart(p)
        \/ ProcSkip(p)
        \/ ProcCreateOk(p)
        \/ ProcCreateFail(p)
        \/ ProcReturn(p)

SpecTwo == TwoInit /\ [][TwoNext]_vars

\* ------------------------------------------------- claims about the pool
IndexOf(d, ip) == CHOOSE i \in 1..Len(d) : d[i].ip = ip

Spread(d) == SeqMax(Loads(d)) - SeqMin(Loads(d))

AllEqual(d) == \A i, j \in 1..Len(d) : d[i].load = d[j].load

\* A step in which get_next_dst_ip returned to its caller.
Returned == selected' # selected

\* C1: the address get_next_dst_ip returns has a load no greater than that of any
\* address of the pool at the moment of the call, and no address stored before it
\* has the same load (of several least-loaded addresses the first in stored order).
C1_ReturnsFirstLeastLoaded ==
    [][Returned =>
        LET i == IndexOf(dst_load, Last(selected')) IN
            /\ \A j \in 1..Len(dst_load) : dst_load[i].load <= dst_load[j].load
            /\ \A j \in 1..(i-1) : dst_load[j].load # dst_load[i].load]_vars

\* C1 witness: the second key was returned although the third had the same load
\* and the first had more.
C1_Witness ==
    /\ Len(dst_load) = 3
    /\ selected # <<>>
    /\ Last(selected) = dst_load[2].ip
    /\ dst_load[3].load = dst_load[2].load - 1
    /\ dst_load[1].load > dst_load[3].load

\* C2: a call adds exactly one to the load of the address it returns and leaves
\* the other loads, the addresses and their order as they were.
C2_OnlyReturnedLoadGrowsByOne ==
    [][Returned =>
        /\ Len(dst_load') = Len(dst_load)
        /\ \A i \in 1..Len(dst_load) :
            /\ dst_load'[i].ip = dst_load[i].ip
            /\ dst_load'[i].load =
                dst_load[i].load + (IF dst_load[i].ip = Last(selected') THEN 1 ELSE 0)]_vars

\* C2 witness: two calls were served by a pool that holds other addresses too.
C2_Witness ==
    /\ Len(dst_load) >= 2
    /\ Len(selected) = 2
    /\ selected[1] = selected[2]

\* C3: from a fresh pool of k addresses, after n calls every load is floor(n/k)
\* or ceil(n/k).
C3_LoadsAreFloorOrCeil ==
    LET k == Len(dst_load)
        n == Len(selected)
    IN  \A i \in 1..k : dst_load[i].load \in {n \div k, (n + k - 1) \div k}

\* C3 witness: a number of calls that the pool size does not divide, past one round.
C3_Witness ==
    /\ Len(dst_load) = 3
    /\ Len(selected) = 4

\* C4: from a fresh pool, the largest load minus the smallest is at most the
\* number of addresses minus one.
C4_SpreadBelowPoolSize == Spread(dst_load) <= Len(dst_load) - 1

\* C4 witness: a pool of two in which the bound is met, after more than one round.
C4_Witness ==
    /\ Len(dst_load) = 2
    /\ Len(selected) >= 3
    /\ Spread(dst_load) = 1

\* C5: from arbitrary loads, a call never returns a most-loaded address while a
\* less loaded one exists; the largest load does not grow while the loads differ;
\* the spread eventually is at most 1; and once at most 1 it stays so.
C5_DrainsLeastLoadedThenStaysEven ==
    /\ [][Returned =>
            ~ /\ dst_load[IndexOf(dst_load, Last(selected'))].load = SeqMax(Loads(dst_load))
              /\ ~AllEqual(dst_load)]_vars
    /\ [][~AllEqual(dst_load) => SeqMax(Loads(dst_load')) = SeqMax(Loads(dst_load))]_vars
    /\ <>(Spread(dst_load) <= 1)
    /\ [][Spread(dst_load) <= 1 => Spread(dst_load') <= 1]_vars

\* C5 witness: three calls in a row went to the same address of a pool of several
\* (so the others started at least two above it), and the loads are now level.
C5_Witness ==
    /\ Len(dst_load) >= 2
    /\ Len(selected) = 3
    /\ selected[1] = selected[2]
    /\ selected[2] = selected[3]
    /\ Spread(dst_load) <= 1

\* C6: from a fresh pool of k addresses, the i-th call (counted from 0) returns
\* the address stored at position i mod k, as a round-robin selector would.
C6_SameAsRoundRobin ==
    LET k == Len(dst_load) IN
        \A i \in 1..Len(selected) : selected[i] = dst_load[((i - 1) % k) + 1].ip

\* C6 witness: the selection wrapped around a pool of three.
C6_Witness ==
    /\ Len(dst_load) = 3
    /\ Len(selected) = 5

\* ---------------------------------------------- claims about the manager
\* The filter of the specification: with an include set, some include string
\* occurs in the path; with an exclude set, no exclude string does.
Contains(path, pat) ==
    \E i \in 0..(Len(path) - Len(pat)) : SubSeq(path, i + 1, i + Len(pat)) = pat

Matches(path, filteri, filtere) ==
    /\ filteri # {} => \E pat \in filteri : Contains(path, pat)
    /\ filtere # {} => \A pat \in filtere : ~Contains(path, pat)

\* The walk entries create_replications has to create a relationship for: not
\* the first, a directory, not a key of the cache.
Eligible(walk, cache) ==
    SelectSeq(Tail(walk), LAMBDA e : e.type = DIRECTORY /\ ~InCache(e.path, cache))

SourcePaths(calls) == [i \in 1..Len(calls) |-> calls[i].source_path]

EntryPaths(es) == [i \in 1..Len(es) |-> es[i].path]

\* A call of create_replications(basepath, dst) is over: the walk is exhausted
\* or an exception left the method.
PlainCreateOver ==
    /\ call.op = "create"
    /\ call.kw = "plain"
    /\ pc = "raised" \/ (pc = "create" /\ idx > Len(entries))

\* C7: when create_replications is over, it has issued one create call, in walk
\* order, for each walk entry that is not the first, is a directory and is not
\* cached, and none for any other entry.
C7_OneCreatePerEligibleEntry ==
    PlainCreateOver => SourcePaths(run_creates) = EntryPaths(Eligible(entries, repli_paths))

\* C8: create_replications never issues a create call for a path that the source
\* cluster listed at the latest populate; so a run after populate creates nothing
\* for the paths an earlier run created.
C8_NoCreateForPathListedAtPopulate ==
    [][Len(run_creates') > Len(run_creates) =>
            Last(run_creates').source_path \notin listed]_vars

\* C8 witness: a run is through its walk without a create call, and the walk held
\* the directory whose relationship an earlier run of this manager created and
\* the populate in between listed.
C8_Witness ==
    /\ pc = "create"
    /\ idx > Len(entries)
    /\ run_creates = <<>>
    /\ created_replications # <<>>
    /\ created_replications[1].source_path \in listed
    /\ \E i \in 2..Len(entries) :
        /\ entries[i].path = created_replications[1].source_path
        /\ entries[i].type = DIRECTORY
    /\ \E i \in 1..Len(source_rels) : source_rels[i].id = created_replications[1].id

\* The ids clean_replications(basepath, filter) has to delete: those of the cached
\* entries whose path starts with basepath and passes the filter.
ToDelete(items, c) ==
    SelectSeq(items, LAMBDA it : /\ StartsWith(it.path, c.basepath)
                                 /\ Matches(it.path, c.filteri, c.filtere))

\* C9: a call clean_replications(basepath, filter) is taken up; when it returns it
\* has issued a delete call for exactly the cached entries whose path starts with
\* basepath and passes the filter, and it returns their number.
C9_CleanDeletesMatchingAndReturnsCount ==
    [][/\ (pc = "clean" /\ pc' = "idle") =>
            /\ Range(run_deletes) = {it.replid : it \in Range(ToDelete(entries, call))}
            /\ Len(run_deletes) = Len(ToDelete(entries, call))
            /\ ret' = IntValue(Len(run_deletes))
       /\ (pc = "idle" /\ call'.op = "clean") => pc' = "clean"]_vars

\* A call of create_replications is over without a failed create call: the walk
\* is exhausted, or the call itself was refused.
CreateOverWithoutApiFailure ==
    /\ call.op = "create"
    /\ (pc = "raised" /\ err = "TypeError") \/ (pc = "create" /\ idx > Len(entries))

DstPathOf(prefix, source_path) ==
    IF ~prefix.given \/ prefix.s \in {<<>>, <<"/">>}
    THEN source_path
    ELSE prefix.s \o source_path

C12_BothFiltersRejected ==
    (args.filteri # "None" /\ args.filtere # "None" /\ vpc # "start") =>
        /\ vpc = "raised"
        /\ factory_calls = <<>>

\* A host and user pair is complete when both are given and not empty.
SrcPair(a) == a.src_host = "given" /\ a.src_user = "given"
DstPair(a) == a.dst_host = "given" /\ a.dst_user = "given"

\* The command lines the claim says are refused.
MustRaise(a) ==
    \/ a.action \in {"summary", "create"} /\ ~SrcPair(a)
    \/ a.action \in {"create", "accept"} /\ ~DstPair(a)
    \/ a.action = "clean" /\ ~SrcPair(a) /\ ~DstPair(a)

\* C25: validate_args raises ValueError for summary or create without the source
\* host or user, for create or accept without the destination host or user, and
\* for clean with neither pair complete; when it raises, the client factory was
\* not called; when it returns, there is a source client exactly when the source
\* pair is complete and a destination client exactly when the destination pair is.
C25_ValidateArgsRaisesOrConnects ==
    /\ (vpc # "start" /\ MustRaise(args)) => (vpc = "raised" /\ verr # "none")
    /\ vpc = "raised" => factory_calls = <<>>
    /\ vpc = "done" =>
        /\ clients.src <=> SrcPair(args)
        /\ clients.dst <=> DstPair(args)
        /\ Range(factory_calls) =
            {k \in {"src", "dst"} : IF k = "src" THEN SrcPair(args) ELSE DstPair(args)}

\* C25 witness: clean with the destination pair alone has returned, with a
\* destination client and no source client.
C25_Witness ==
    /\ vpc = "done"
    /\ args.action = "clean"
    /\ args.src_host = "given"
    /\ args.src_user = ""
    /\ clients = [src |-> FALSE, dst |-> TRUE]
    /\ factory_calls = <<"dst">>

\* ---------------------------------------------------- claims about the cache
\* A step of populate_replication_cache: the only method that starts and ends
\* with the manager at rest.
PopulateStep == pc = "idle" /\ pc' = "idle"

\* C13: after every call of populate_replication_cache the keys of the cache are
\* exactly the source paths of the listing just fetched (no key of an earlier
\* populate survives if the listing lacks its path), and each key maps to the id
\* and target address of a listed relationship with that path.
C13_CacheIsTheListing ==
    [][PopulateStep =>
        /\ {repli_paths'[i].path : i \in 1..Len(repli_paths')}
                = {source_rels[j].source_root_path : j \in 1..Len(source_rels)}
        /\ \A i \in 1..Len(repli_paths') :
                \E j \in 1..Len(source_rels) :
                    /\ source_rels[j].source_root_path = repli_paths'[i].path
                    /\ source_rels[j].id = repli_paths'[i].replid
                    /\ source_rels[j].target_address = repli_paths'[i].dst]_vars

\* C28: no step of create_replications or clean_replications adds, removes or
\* changes an entry of the cache, only populate_replication_cache does; a path
\* just created is not in the cache and an entry just deleted still is.
C28_OnlyPopulateChangesTheCache ==
    /\ [][~PopulateStep => repli_paths' = repli_paths]_vars
    /\ [][(Len(run_creates') > Len(run_creates) /\ source_rels' # source_rels) =>
            ~InCache(Last(run_creates').source_path, repli_paths')]_vars
    /\ [][(Len(run_deletes') > Len(run_deletes) /\ source_rels' # source_rels) =>
            \E i \in 1..Len(repli_paths') : repli_paths'[i].replid = Last(run_deletes')]_vars

\* C28 witness: clean_replications has deleted a relationship whose entry is
\* still in the cache, while the source cluster has a relationship, created
\* after the latest populate, whose path is not in the cache.
C28_Witness ==
    /\ pc = "clean"
    /\ run_deletes # <<>>
    /\ \E i \in 1..Len(repli_paths) :
        /\ repli_paths[i].replid = run_deletes[1]
        /\ \A j \in 1..Len(source_rels) : source_rels[j].id # run_deletes[1]
    /\ \E j \in 1..Len(source_rels) :
        ~InCache(source_rels[j].source_root_path, repli_paths)

\* The step in which create_replications returns; every create call of a run
\* that returns has succeeded.
CreateReturnStep == call.op = "create" /\ pc = "create" /\ pc' = "idle"

\* C29: when create_replications returns, created_replications holds a record
\* for each relationship the run created, one per successful create call.
C29_TallyHasARecordPerCreation ==
    [][CreateReturnStep =>
        /\ Len(created_replications') >= Len(run_creates)
        /\ \A i \in 1..Len(run_creates) :
            \E j \in 1..Len(created_replications') :
                created_replications'[j].source_path = run_creates[i].source_path]_vars

\* The number of create calls issued with address ip.
CallsWith(calls, ip) == Cardinality({j \in 1..Len(calls) : calls[j].address = ip})

RECURSIVE SumOf(_)
SumOf(s) == IF s = <<>> THEN 0 ELSE s[1] + SumOf(Tail(s))

\* The manager's first call is a create_replications in progress (or one that an
\* exception left): the pool was new when it began.
FirstRunOnNewPool ==
    /\ call.op = "create"
    /\ pc \in {"create", "raised"}
    /\ ret = Unset

\* C30: throughout a create_replications run on a new pool, the load of each
\* address is the number of create calls issued so far with it, failed calls
\* included, and the loads sum to the number of calls; in any run, a step that
\* issues a create call adds one to the load of the call's address and to no
\* other, and a step that skips an entry changes no load.
C30_LoadCountsCreateCalls ==
    /\ [](FirstRunOnNewPool =>
            /\ \A i \in 1..Len(dst_load) :
                dst_load[i].load = CallsWith(run_creates, dst_load[i].ip)
            /\ SumOf(Loads(dst_load)) = Len(run_creates))
    /\ [][(call.op = "create" /\ pc = "create") =>
            IF Len(run_creates') > Len(run_creates)
            THEN \E i \in 1..Len(dst_load) :
                    /\ dst_load[i].ip = Last(run_creates').address
                    /\ dst_load' = [dst_load EXCEPT ![i].load = @ + 1]
            ELSE dst_load' = dst_load]_vars

\* C30 witness: in the manager's first run over a pool of two addresses, the
\* base path was skipped, one create call succeeded and the next failed; each
\* address has load 1.
C30_Witness ==
    /\ FirstRunOnNewPool
    /\ pc = "raised"
    /\ err = "RequestError"
    /\ Len(run_creates) = 2
    /\ Loads(dst_load) = <<1, 1>>
    /\ run_creates[1].address # run_creates[2].address

\* A step in which create_replications issued a create call that failed: the
\* call was made and the source cluster has no new relationship.
FailedCreateStep ==
    /\ call.op = "create"
    /\ Len(run_creates') > Len(run_creates)
    /\ source_rels' = source_rels

\* C14: when the create call for one directory fails, create_replications goes
\* on with the next walk entry (the failure does not leave the method and the
\* failed entry is not tried again), and the failed entry does not enter the
\* tally.
C14_CreateFailureStaysInItsEntry ==
    [][FailedCreateStep =>
        /\ pc' = "create"
        /\ err' = "none"
        /\ idx' = idx + 1
        /\ created_replications' = created_replications]_vars

\* A step in which clean_replications issued a delete call that failed: the
\* call was made and the source cluster still has every relationship.
FailedDeleteStep ==
    /\ call.op = "clean"
    /\ Len(run_deletes') > Len(run_deletes)
    /\ source_rels' = source_rels

\* C26: when the delete call for one cached entry fails, clean_replications goes
\* on with the next cached entry (so that the remaining matching entries still
\* get their delete call) and the failure does not leave the method.
C26_DeleteFailureStaysInItsEntry ==
    [][FailedDeleteStep =>
        /\ pc' = "clean"
        /\ err' = "none"
        /\ idx' = idx + 1]_vars

\* -------------------------------------- claims about the destination cluster
Ids(s) == [i \in 1..Len(s) |-> s[i].id]

\* A step in which a call to the destination cluster (authorize or delete) was
\* issued, and one in which that call failed.
AttemptStep == Len(attempts') > Len(attempts)

FailedAttemptStep == AttemptStep /\ ~Last(attempts').ok

\* A step in which accept_pending_replications returns.
AcceptReturnStep == dcall.op = "accept" /\ dpc # "idle" /\ dpc' = "idle"

\* The candidates whose call succeeded, in candidate order.
Succeeded(cs, at) ==
    SelectSeq(cs, LAMBDA c : \E i \in 1..Len(at) : at[i].id = c.id /\ at[i].ok)

\* C15: accept_pending_replications returns exactly the candidates whose
\* authorize call succeeded, each as id, target path and source cluster, in
\* candidate order; after a failing authorize the loop goes on with the next
\* candidate and the method still returns a list.
C15_ReturnsTheAuthorizedInOrder ==
    /\ [][AcceptReturnStep =>
            /\ dret'.kind = "list"
            /\ dret'.list =
                [i \in 1..Len(Succeeded(cands, attempts)) |->
                    [id |-> Succeeded(cands, attempts)[i].id,
                     target_path |-> Succeeded(cands, attempts)[i].target_root_path,
                     source_cluster |-> Succeeded(cands, attempts)[i].source_cluster_name]]]_vars
    /\ [][(dcall.op = "accept" /\ FailedAttemptStep) =>
            /\ dpc' = "accept"
            /\ didx' = didx + 1]_vars
    /\ []((dcall.op = "accept" /\ dpc = "accept" /\ didx > Len(cands)) =>
            Ids(attempts) = Ids(cands))

\* C15 witness: the loop is through two candidates; authorize failed for the
\* first and succeeded for the second.
C15_Witness ==
    /\ dcall.op = "accept"
    /\ dpc = "accept"
    /\ Len(cands) = 2
    /\ didx > Len(cands)
    /\ ~attempts[1].ok
    /\ attempts[2].ok
    /\ Len(accepted) = 1

\* The answers that are yes or y, whatever their case.
YesAnswers == {"yes", "Yes", "YES", "y", "Y"}

\* C16: accept_pending_replications returns an empty list without an authorize
\* call when nothing is pending, and when confirm is set and the answer is not
\* yes or y in any case; without confirm it never prompts.
C16_NothingPendingOrDeclinedTouchesNothing ==
    /\ [][(AcceptReturnStep /\ (cands = <<>> \/ (dcall.confirm /\ dcall.response \notin YesAnswers))) =>
            /\ dret' = ListValueD(<<>>)
            /\ attempts = <<>>
            /\ target_rels' = target_rels]_vars
    /\ []((dcall.op = "accept" /\ ~dcall.confirm) => prompts = 0)
    /\ []((dpc = "accept" /\ dcall.confirm) => (prompts = 1 /\ dcall.response \in YesAnswers))

\* C16 witness: something is pending, the operator was asked and typed " y",
\* and the method is about to return.
C16_Witness ==
    /\ dcall.op = "accept"
    /\ dpc = "return"
    /\ cands # <<>>
    /\ dcall.confirm
    /\ prompts = 1
    /\ dcall.response = " y"
    /\ attempts = <<>>

\* The spellings of the awaiting / pending markers that occur in the listing.
PendingMarkers == {"AWAITING_AUTHORIZATION", "awaiting_authorization",
                   "PENDING", "Pending", "pending"}

MarkedPending(rel) ==
    rel.state \in PendingMarkers \/ rel.relationship_state \in PendingMarkers

\* C17: when acceptance is not cancelled, every authorize call goes to a listed
\* relationship whose state or relationship_state is an awaiting / pending
\* marker in some case, no relationship gets two, and when the loop is over
\* every such relationship has got one.
C17_AuthorizeOncePerPendingOnly ==
    /\ [][(dcall.op = "accept" /\ AttemptStep) =>
            /\ \E i \in 1..Len(target_rels) :
                /\ target_rels[i].id = Last(attempts').id
                /\ MarkedPending(target_rels[i])
            /\ \A i \in 1..Len(attempts) : attempts[i].id # Last(attempts').id]_vars
    /\ []((dcall.op = "accept" /\ dpc = "accept" /\ didx > Len(cands)) =>
            \A i \in 1..Len(target_rels) :
                MarkedPending(target_rels[i]) =>
                    \E j \in 1..Len(attempts) : attempts[j].id = target_rels[i].id)

\* C17 witness: the loop is over; an ESTABLISHED relationship whose
\* relationship_state is Pending got its authorize call, an ENDED one got none.
C17_Witness ==
    /\ dcall.op = "accept"
    /\ dpc = "accept"
    /\ didx > Len(cands)
    /\ Len(attempts) = 1
    /\ \E i \in 1..Len(target_rels) :
        /\ target_rels[i].id = attempts[1].id
        /\ target_rels[i].state = "ESTABLISHED"
        /\ target_rels[i].relationship_state = "Pending"
    /\ \E i \in 1..Len(target_rels) : target_rels[i].state = "ENDED"

EndedUnder(rel, basepath) ==
    rel.state = "ENDED" /\ StartsWith(rel.target_root_path, basepath)

OkCount(at) == Cardinality({i \in 1..Len(at) : at[i].ok})

\* C18: every delete call of clean_ended_replications(basepath) goes to a listed
\* relationship that is ENDED and whose target path starts with basepath, no
\* relationship gets two, and when the loop is over every such relationship has
\* got one; after a failing delete the loop goes on; the method returns the
\* number of deletes that succeeded.
C18_DeletesEndedUnderBasepathAndCounts ==
    /\ [][(dcall.op = "ended" /\ AttemptStep) =>
            /\ \E i \in 1..Len(target_rels) :
                /\ target_rels[i].id = Last(attempts').id
                /\ EndedUnder(target_rels[i], dcall.basepath)
            /\ \A i \in 1..Len(attempts) : attempts[i].id # Last(attempts').id]_vars
    /\ [][(dcall.op = "ended" /\ FailedAttemptStep) =>
            /\ dpc' = "ended"
            /\ didx' = didx + 1]_vars
    /\ []((dcall.op = "ended" /\ (dpc = "return" \/ (dpc = "ended" /\ didx > Len(cands)))) =>
            \A i \in 1..Len(target_rels) :
                EndedUnder(target_rels[i], dcall.basepath) =>
                    \E j \in 1..Len(attempts) : attempts[j].id = target_rels[i].id)
    /\ [][(dcall.op = "ended" /\ dpc # "idle" /\ dpc' = "idle") =>
            dret' = IntValueD(OkCount(attempts))]_vars

\* C18 witness: clean_ended_replications("/dd") is through its loop; the delete
\* of the one ENDED relationship under /dd failed, none was tried for the ENDED
\* relationship under /d.
C18_Witness ==
    /\ dcall.op = "ended"
    /\ dcall.basepath = P_dd
    /\ dpc = "ended"
    /\ didx > Len(cands)
    /\ Len(attempts) = 1
    /\ ~attempts[1].ok
    /\ deleted_count = 0
    /\ \E i \in 1..Len(target_rels) :
        /\ target_rels[i].state = "ENDED"
        /\ target_rels[i].target_root_path = P_dx

\* The error text speaks of a directory that is not empty, in any spelling.
IndicatesNotEmpty(text) ==
    \E i \in 1..Len(text) : text[i] = "Error 400: fs_directory_not_empty_error"

\* C27: for every failed authorize call, the remediation hint is emitted when the
\* error text indicates a directory that is not empty and allow_non_empty_dir is
\* false; in every other case the first line of the error text is emitted and
\* no later line, whatever the error code.
C27_HintOrFirstLineOnly ==
    [][(dcall.op = "accept" /\ FailedAttemptStep) =>
        IF IndicatesNotEmpty(logged'.text) /\ ~dcall.allow_non_empty_dir
        THEN logged'.log = <<HintLine>>
        ELSE logged'.log = <<logged'.text[1]>>]_vars

\* ---------------------------------------- claims about the pool's construction
\* The networks the cluster reports.
Reported(data) == {data[i].id : i \in 1..Len(data)}

\* The addresses available for a network: those of the entries reported for it.
AvailableFor(data, network) ==
    UNION {Range(data[i].floating_addresses) : i \in {j \in 1..Len(data) : data[j].id = network}}

\* The listed addresses that are not available, in listed order.
Offending(c, data) ==
    SelectSeq(c.user_ips.ips, LAMBDA ip : ip \notin AvailableFor(data, c.network))

FirstAt(l, x) == CHOOSE i \in 1..Len(l) : l[i] = x /\ \A j \in 1..(i-1) : l[j] # x

\* The pool holds exactly the addresses of list l, each once, in the order in
\* which l first mentions them.
PoolIsTheList(d, l) ==
    /\ {d[i].ip : i \in 1..Len(d)} = Range(l)
    /\ \A i, j \in 1..Len(d) : i < j => FirstAt(l, d[i].ip) < FirstAt(l, d[j].ip)

\* A construction with an explicit address list has ended.
ListedCtorOver ==
    /\ ctor.kw = "network_id"
    /\ ctor.user_ips.given
    /\ ctor.user_ips.ips # <<>>
    /\ cpc \in {"raised", "done"}

\* The error names every offending address, and no pool exists.
OffendersNamed ==
    /\ cpc = "raised"
    /\ cerr.kind = "ValueError"
    /\ Range(cerr.ips) = Range(Offending(ctor, fip_data))
    /\ dst_load = <<>>

C20_UnknownNetworkErrorListsNetworks ==
    (/\ ctor.kw = "network_id"
     /\ cpc \in {"raised", "done"}
     /\ ctor.network \notin Reported(fip_data)) =>
        /\ cpc = "raised"
        /\ cerr.kind = "ValueError"
        /\ cerr.network = ctor.network
        /\ cerr.available = Reported(fip_data)

\* A construction without an explicit address list has ended, whichever way the
\* network was named.
DiscoveredCtorOver ==
    /\ ctor.kw \in {"network_id", "network_name"}
    /\ ~HasUserIps(ctor)
    /\ cpc \in {"raised", "done"}

PoolIps(d) == {d[i].ip : i \in 1..Len(d)}

\* C21: without an explicit address list, the pool holds every address that any
\* entry of the report allocates under the selected network (the union over the
\* reporting nodes); an entry without addresses contributes nothing, and there
\* is no error as long as some entry reports an address.
C21_PoolIsUnionOverReports ==
    (DiscoveredCtorOver /\ AvailableFor(fip_data, ctor.network) # {}) =>
        /\ cpc = "done"
        /\ PoolIps(dst_load) = AvailableFor(fip_data, ctor.network)

MutatingStep ==
    \/ Len(run_creates') > Len(run_creates)
    \/ Len(run_deletes') > Len(run_deletes)
    \/ AttemptStep

\* Validation or the construction of the pool raised a configuration error.
ConfigError == vpc = "raised" \/ (cpc = "raised" /\ cerr.kind = "ValueError")

\* No method of the manager or of the target cluster has been entered in this
\* run: none is running, none has returned, none was left by an exception.
NothingRan ==
    /\ pc = "idle"
    /\ ret = Unset
    /\ dpc = "idle"
    /\ dret = UnsetD
    /\ run_creates = <<>>
    /\ run_deletes = <<>>
    /\ attempts = <<>>

\* C24: in a run of main in which validate_args or the construction of the pool
\* raises a configuration error, no create, delete or authorize call was issued
\* before, and none is issued after.
C24_ConfigErrorPrecedesAnyCall ==
    /\ [](ConfigError => NothingRan)
    /\ [][MutatingStep => (~ConfigError /\ ~ConfigError')]_vars

\* C24 witness: main create, with relationships on the source cluster, ended in
\* the constructor's ValueError for a listed address the network does not have.
C24_Witness ==
    /\ main.pc = "died"
    /\ args.action = "create"
    /\ source_rels # <<>>
    /\ cerr.kind = "ValueError"
    /\ cerr.ips = <<98>>
    /\ NothingRan

\* ------------------------------------------ claims about concurrent runs
\* Invocation p is at a directory of the walk that is not the base directory.
ProcAtDir(p) ==
    /\ ProcInLoop(p)
    /\ ~procs[p].first
    /\ procs[p].entries[procs[p].idx].type = DIRECTORY

\* The step issues a create call of invocation p.
ProcIssued(p) == Len(procs'[p].run_creates) > Len(procs[p].run_creates)

\* C23: with two invocations that populate and then create over the same base
\* path, whether an invocation issues the create call for a directory is decided
\* by its own cache alone, which no step of the create changes: what the other
\* invocation has created since the populate does not count.  (The interleaving
\* in which both create the same path is the witness.)
C23_CreateDecidedByOwnCacheAlone ==
    [][\A p \in Procs :
        /\ (procs'[p] # procs[p] /\ ProcAtDir(p)) =>
            (ProcIssued(p) <=>
                ~InCache(procs[p].entries[procs[p].idx].path, procs[p].repli_paths))
        /\ procs[p].pc = "create" => procs'[p].repli_paths = procs[p].repli_paths]_vars

\* C23 witness: both invocations have returned, each issued a create call for the
\* same source path, and the source cluster holds two relationships for it.
C23_Witness ==
    /\ \A p \in Procs : procs[p].pc = "done"
    /\ \E i \in 1..Len(procs[1].run_creates) : \E j \in 1..Len(procs[2].run_creates) :
        /\ procs[1].run_creates[i].source_path = procs[2].run_creates[j].source_path
        /\ \E a, b \in 1..Len(source_rels) :
            /\ a # b
            /\ source_rels[a].source_root_path = procs[1].run_creates[i].source_path
            /\ source_rels[b].source_root_path = procs[1].run_creates[i].source_path

====
